---- MODULE Spec2Model ----
(***************************************************************************)
(* Hydra Bugbot: the manifest ledger (core/manifest.js), the reverter      *)
(* (core/reverter.js), the injection engine (core/injector.js) and the     *)
(* CLI commands that drive them (cli.js), as one state machine.            *)
(*                                                                         *)
(* A file is a sequence of lines.  A line records whether the real defect  *)
(* on it has been repaired (fix) and whether a template has mutated it     *)
(* (mut).  The manifest exists twice: the object held by the running       *)
(* infest process (mem) and the JSON document on disk (disk).              *)
(***************************************************************************)
EXTENDS Integers, Sequences, FiniteSets, TLC

\* ------------------------------------------------------------------ bounds
NumLines == 2
MaxBugs == 2
MaxRatio == 2
MaxClock == 2
MaxApiFixes == 1
MaxApiBugs == 2

Files == <<"a", "b">>
FileSet == {Files[i] : i \in 1..Len(Files)}
Languages == {"javascript", "python"}
CliReviewers == {"anonymous"}
ApiReviewers == {"alice", "bob"}

\* ------------------------------------------------------------ JS values
Null == "null"
Undefined == "undefined"
ISO == <<"t1", "t2", "t3", "t4", "t5", "t6">>

\* String(n): the decimal digits of n
RECURSIVE Digits(_)
Digits(n) == IF n < 10 THEN <<n>> ELSE Digits(n \div 10) \o <<n % 10>>

\* s.padStart(len, ch)
RECURSIVE PadStart(_, _, _)
PadStart(s, len, ch) == IF Len(s) >= len THEN s ELSE PadStart(<<ch>> \o s, len, ch)

FixId(n) == [prefix |-> "fix", digits |-> PadStart(Digits(n), 3, 0)]
HydraId(n) == [prefix |-> "hydra", digits |-> PadStart(Digits(n), 3, 0)]

\* ------------------------------------------------------------- contents
\* a line of source text: "orig" carries a real defect, "fixed" has it repaired;
\* a trailing "~" marks the line as rewritten by a mutation template
CleanLine == "orig"
CleanFile == [l \in 1..NumLines |-> CleanLine]

IsMutated(line) == line \in {"orig~", "fixed~"}
IsFixed(line) == line \in {"fixed", "fixed~"}
Mutate(line) ==
    IF line = "orig" THEN "orig~" ELSE IF line = "fixed" THEN "fixed~"
    ELSE IF line = "void" THEN "void~" ELSE line
Repair(line) == IF line = "orig" THEN "fixed" ELSE IF line = "orig~" THEN "fixed~" ELSE line

\* a null originalCode, kept apart from every file content
NullCode == <<Null>>

\* the state of a path with no file at it (fs.existsSync is false)
Missing == <<"missing">>

\* ------------------------------------------------------------- manifest
EmptyStats == [totalRealFixes |-> 0, totalInjected |-> 0, discovered |-> 0, undiscovered |-> 0]

\* the state of the manifest path when no file is there
NoManifest == [exists |-> FALSE, branch |-> 0, realFixes |-> <<>>, injectedBugs |-> <<>>, stats |-> EmptyStats]

\* JSON.stringify drops a property whose value is undefined; reading the
\* dropped property back yields undefined again
Absent == "absent"

StringifyBug(b) == IF b.discoveredBy = Undefined THEN [b EXCEPT !.discoveredBy = Absent] ELSE b

ParseBug(b) == IF b.discoveredBy = Absent THEN [b EXCEPT !.discoveredBy = Undefined] ELSE b

Stringify(m) == [m EXCEPT !.injectedBugs = [k \in 1..Len(m.injectedBugs) |-> StringifyBug(m.injectedBugs[k])]]

saveManifest(d, m) == Stringify(m)

\* JSON.parse of the document; the caller tests d.exists for the null return
loadManifest(d) == [d EXCEPT !.injectedBugs = [k \in 1..Len(d.injectedBugs) |-> ParseBug(d.injectedBugs[k])]]

CountDiscovered(bugs) == Cardinality({k \in 1..Len(bugs) : bugs[k].discoveredBy # Null})

updateStats_nosave(d, m) ==
    LET discovered == CountDiscovered(m.injectedBugs)
        m2 == [m EXCEPT !.stats = [totalRealFixes |-> Len(m.realFixes),
                                   totalInjected |-> Len(m.injectedBugs),
                                   discovered |-> discovered,
                                   undiscovered |-> Len(m.injectedBugs) - discovered]]
    IN [mem |-> m2, disk |-> d]

updateStats(d, m) ==
    LET discovered == CountDiscovered(m.injectedBugs)
        m2 == [m EXCEPT !.stats = [totalRealFixes |-> Len(m.realFixes),
                                   totalInjected |-> Len(m.injectedBugs),
                                   discovered |-> discovered,
                                   undiscovered |-> Len(m.injectedBugs) - discovered]]
    IN [mem |-> m2, disk |-> saveManifest(d, m2)]

createManifest(d, branch) ==
    LET m == [exists |-> TRUE, branch |-> branch, realFixes |-> <<>>, injectedBugs |-> <<>>, stats |-> EmptyStats]
    IN [mem |-> m, disk |-> saveManifest(d, m)]

\* { id, ...fix }: a property of the argument named id replaces the generated one
SpreadId(id, arg) == IF "id" \in DOMAIN arg THEN arg.id ELSE id

addRealFix(d, m, fix) ==
    LET nextIndex == Len(m.realFixes) + 1
        entry == [id |-> SpreadId(FixId(nextIndex), fix), file |-> fix.file, line |-> fix.line,
                  description |-> fix.description]
    IN updateStats(d, [m EXCEPT !.realFixes = Append(@, entry)])

addInjectedBug_nostats(d, m, bug) ==
    LET nextIndex == Len(m.injectedBugs) + 1
        entry == [id |-> SpreadId(HydraId(nextIndex), bug), parentFix |-> bug.parentFix, file |-> bug.file,
                  line |-> bug.line, originalCode |-> bug.originalCode,
                  discoveredBy |-> Null, discoveredAt |-> Null]
        m2 == [m EXCEPT !.injectedBugs = Append(@, entry)]
    IN [mem |-> m2, disk |-> saveManifest(d, m2)]

addInjectedBug(d, m, bug) ==
    LET nextIndex == Len(m.injectedBugs) + 1
        entry == [id |-> SpreadId(HydraId(nextIndex), bug), parentFix |-> bug.parentFix, file |-> bug.file,
                  line |-> bug.line, originalCode |-> bug.originalCode,
                  discoveredBy |-> Null, discoveredAt |-> Null]
    IN updateStats(d, [m EXCEPT !.injectedBugs = Append(@, entry)])

\* index of the first bug with the given id, 0 when find() returns undefined
FindBug(bugs, bugId) ==
    LET hits == {k \in 1..Len(bugs) : bugs[k].id = bugId}
    IN IF hits = {} THEN 0 ELSE CHOOSE k \in hits : \A j \in hits : k <= j

markDiscovered(d, m, bugId, reviewer, stamp) ==
    LET k == FindBug(m.injectedBugs, bugId)
    IN IF k = 0 THEN [mem |-> m, disk |-> d, threw |-> TRUE]
       ELSE LET r == updateStats(d, [m EXCEPT !.injectedBugs[k].discoveredBy = reviewer,
                                               !.injectedBugs[k].discoveredAt = stamp])
            IN [mem |-> r.mem, disk |-> r.disk, threw |-> FALSE]

getUndiscoveredBugs(m) == SelectSeq(m.injectedBugs, LAMBDA b : b.discoveredBy = Null)


\* ------------------------------------------------------------- reverter
\* result of revertSingleInjection on the file system fs
revertSingleInjection(fs, m, bugId) ==
    LET k == FindBug(m.injectedBugs, bugId)
    IN IF k = 0 THEN [fs |-> fs, success |-> FALSE]
       ELSE IF m.injectedBugs[k].originalCode = NullCode THEN [fs |-> fs, success |-> FALSE]
       ELSE IF fs[m.injectedBugs[k].file] = Missing THEN [fs |-> fs, success |-> FALSE]
       ELSE [fs |-> [fs EXCEPT ![m.injectedBugs[k].file] = m.injectedBugs[k].originalCode],
             success |-> TRUE]

Reverse(s) == [k \in 1..Len(s) |-> s[Len(s) + 1 - k]]

RevertOrder_forward(bugs) == bugs

RevertOrder(bugs) == Reverse(bugs)

\* one iteration of the loop: count a success, push an error otherwise
Tally_silent(summary, success, bugId) ==
    IF success THEN [summary EXCEPT !.reverted = @ + 1] ELSE summary

Tally(summary, success, bugId) ==
    IF success THEN [summary EXCEPT !.reverted = @ + 1]
    ELSE [summary EXCEPT !.errors = @ + 1, !.log = Append(@, bugId)]

RECURSIVE RevertLoop(_, _, _, _)
RevertLoop(fs, m, order, summary) ==
    IF order = <<>>
    THEN [fs |-> fs, reverted |-> summary.reverted, errors |-> summary.errors, log |-> summary.log]
    ELSE LET r == revertSingleInjection(fs, m, Head(order).id)
         IN RevertLoop(r.fs, m, Tail(order), Tally(summary, r.success, Head(order).id))

\* errors is errors.length, log the bug ids of the error strings in push order
revertAllInjections(fs, m) ==
    RevertLoop(fs, m, RevertOrder(m.injectedBugs), [reverted |-> 0, errors |-> 0, log |-> <<>>])

\* ------------------------------------------------------------- injector
\* the source tree in sorted path order: a, b and p lie in src/, c in lib/;
\* p is a source file of another supported language
Tree == <<"a", "b", "c", "p">>
Paths == {Tree[i] : i \in 1..Len(Tree)}

Dir == [f \in Paths |-> IF f = "c" THEN "lib" ELSE "src"]
ParentDir == [d \in {"src", "lib"} |-> "root"]

InScope(f, scopeDir) == scopeDir = "root" \/ Dir[f] = scopeDir

\* the language the extension of f maps to, in a project written in language
LangOf(f, language) ==
    IF f # "p" THEN language ELSE IF language = "javascript" THEN "python" ELSE "javascript"

\* file contents that cannot be used
Unreadable == <<"unreadable">>
Garbled == <<"garbled">>

ReadFails(src) == src \in {Missing, Unreadable}

\* Babel throws on a syntax error; the line parser accepts any text
ParseFails(src, language) == language = "javascript" /\ src = Garbled

\* import specifiers per file: tail is the text the specifier ends with
ImportsOf ==
    [f \in Paths |->
        IF f = "a" THEN {[spec |-> "lodash", tail |-> "lodash", external |-> TRUE]}
        ELSE IF f = "b" THEN {[spec |-> "./a", tail |-> "a", external |-> FALSE]}
        ELSE IF f = "c" THEN {[spec |-> "lodash", tail |-> "lodash", external |-> TRUE]}
        ELSE {}]

extractImports(f, src, language) ==
    IF ReadFails(src) \/ ParseFails(src, language) \/ src = Garbled THEN {} ELSE ImportsOf[f]

\* a template: its category, the lines its pattern matches, and the lines on
\* which its findInjectionPoints throws
NegationStrip == [name |-> "negation-strip", category |-> "logic",
                  pattern |-> {"orig", "fixed", "trap", "same", "void"}, chokes |-> {}]
LogicInversion == [name |-> "logic-inversion", category |-> "logic",
                   pattern |-> {"orig", "fixed"}, chokes |-> {"knot"}]
AsyncRace == [name |-> "async-race", category |-> "async",
              pattern |-> {"await"}, chokes |-> {}]

Templates == <<NegationStrip>>

Min(x, y) == IF x < y THEN x ELSE y

\* relatednessScore without its two Math.min caps
relatednessScore_nocap(candidateFile, fixedFile, candidateImports, fixedImports) ==
    LET dirPart == IF Dir[candidateFile] = Dir[fixedFile] THEN 40
                   ELSE IF ParentDir[Dir[candidateFile]] = ParentDir[Dir[fixedFile]] THEN 20
                   ELSE 0
        stemPart == IF \E imp \in candidateImports : imp.tail = fixedFile THEN 40 ELSE 0
        fixedExternal == {i \in fixedImports : i.external}
        sharedExternal == {i \in candidateImports : i.external /\ i \in fixedExternal}
    IN dirPart + stemPart + Cardinality(sharedExternal) * 5

\* scores are kept in hundredths, the composite in ten-thousandths
relatednessScore(candidateFile, fixedFile, candidateImports, fixedImports) ==
    LET dirPart == IF Dir[candidateFile] = Dir[fixedFile] THEN 40
                   ELSE IF ParentDir[Dir[candidateFile]] = ParentDir[Dir[fixedFile]] THEN 20
                   ELSE 0
        stemPart == IF \E imp \in candidateImports : imp.tail = fixedFile THEN 40 ELSE 0
        fixedExternal == {i \in fixedImports : i.external}
        sharedExternal == {i \in candidateImports : i.external /\ i \in fixedExternal}
    IN Min(dirPart + stemPart + Min(Cardinality(sharedExternal) * 5, 20), 100)

\* the switch of categoryFitScore: hit says that the keywords of the category
\* occur in the fix context (file path and description)
categoryFit(category, hit, language) ==
    IF category = "react" THEN (IF language = "javascript" /\ hit THEN 80 ELSE 10)
    ELSE IF category = "async" THEN (IF hit THEN 80 ELSE 30)
    ELSE IF category = "logic" THEN 50
    ELSE IF category = "null-safety" THEN (IF hit THEN 80 ELSE 40)
    ELSE IF category = "error-handling" THEN (IF hit THEN 80 ELSE 30)
    ELSE IF category = "concurrency" THEN (IF hit THEN 80 ELSE 20)
    ELSE IF category = "resource" THEN (IF hit THEN 80 ELSE 30)
    ELSE IF category = "indentation" THEN (IF language = "python" THEN 60 ELSE 0)
    ELSE IF category = "correctness" THEN 50
    ELSE IF category = "security" THEN (IF hit THEN 90 ELSE 20)
    ELSE IF category = "database" THEN (IF hit THEN 90 ELSE 20)
    ELSE IF category = "event-loop" THEN (IF hit THEN 80 ELSE 20)
    ELSE 30

\* categoryFitScore for the fixes of the model, whose context holds no keyword
categoryFitScore(template) == categoryFit(template.category, FALSE, "javascript")

\* CATEGORY_SEVERITY[category] ?? 3
CategorySeverity(category) ==
    IF category \in {"logic", "indentation"} THEN 2
    ELSE IF category \in {"async", "concurrency", "database"} THEN 4
    ELSE IF category = "security" THEN 5
    ELSE 3

DefaultSeverity == 3

Abs(x) == IF x < 0 THEN -x ELSE x

severityMatchScore(template, requestedSeverity) ==
    LET distance == Abs(CategorySeverity(template.category) - requestedSeverity)
        v == 100 - distance * 25
    IN IF v < 0 THEN 0 ELSE v

\* the lines of parsed that the pattern matches, in line order
findMatchingLines(parsed, pattern) ==
    LET idx == {l \in 1..Len(parsed) : parsed[l] \in pattern}
        Nth[k \in 1..Cardinality(idx)] == CHOOSE l \in idx : Cardinality({j \in idx : j < l}) = k - 1
    IN [k \in 1..Cardinality(idx) |-> [lineIndex |-> Nth[k], line |-> parsed[Nth[k]]]]

FindThrows(template, parsed) == \E l \in 1..Len(parsed) : parsed[l] \in template.chokes

findInjectionPoints(template, parsed) == findMatchingLines(parsed, template.pattern)

\* the walk of the scope directory: existing files of the adapter's language,
\* the fixed file left out, in sorted order
collectCandidateFiles(scopeDir, fixedFile, language, fs) ==
    SelectSeq(Tree, LAMBDA f : /\ f \in DOMAIN fs
                               /\ fs[f] # Missing
                               /\ InScope(f, scopeDir)
                               /\ LangOf(f, language) = language
                               /\ f # fixedFile)

RECURSIVE StableInsert_strict(_, _)
StableInsert_strict(sorted, c) ==
    IF sorted = <<>> THEN <<c>>
    ELSE IF Head(sorted).score > c.score THEN <<Head(sorted)>> \o StableInsert_strict(Tail(sorted), c)
    ELSE <<c>> \o sorted

RECURSIVE StableInsert(_, _)
StableInsert(sorted, c) ==
    IF sorted = <<>> THEN <<c>>
    ELSE IF Head(sorted).score >= c.score THEN <<Head(sorted)>> \o StableInsert(Tail(sorted), c)
    ELSE <<c>> \o sorted

RECURSIVE SortByScore(_)
SortByScore(cands) ==
    IF cands = <<>> THEN <<>>
    ELSE StableInsert(SortByScore(SubSeq(cands, 1, Len(cands) - 1)), cands[Len(cands)])

RECURSIVE ScanTemplates_abort(_, _, _, _, _)
ScanTemplates_abort(ts, filePath, src, relScore, severity) ==
    IF ts = <<>> \/ FindThrows(Head(ts), src) THEN <<>>
    ELSE LET template == Head(ts)
             points == findInjectionPoints(template, src)
             score == relScore * 40 + categoryFitScore(template) * 35
                      + severityMatchScore(template, severity) * 25
         IN [k \in 1..Len(points) |->
                [file |-> filePath, template |-> template, injectionPoint |-> points[k],
                 score |-> score, originalCode |-> src]]
            \o ScanTemplates_abort(Tail(ts), filePath, src, relScore, severity)

\* the template loop for one parsed file
RECURSIVE ScanTemplates(_, _, _, _, _)
ScanTemplates(ts, filePath, src, relScore, severity) ==
    IF ts = <<>> THEN <<>>
    ELSE LET template == Head(ts)
             points == IF FindThrows(template, src) THEN <<>>
                       ELSE findInjectionPoints(template, src)
             score == relScore * 40 + categoryFitScore(template) * 35
                      + severityMatchScore(template, severity) * 25
         IN [k \in 1..Len(points) |->
                [file |-> filePath, template |-> template, injectionPoint |-> points[k],
                 score |-> score, originalCode |-> src]]
            \o ScanTemplates(Tail(ts), filePath, src, relScore, severity)

\* the file loop
RECURSIVE ScanFiles(_, _, _, _, _, _)
ScanFiles(fileList, fixedFile, severity, ts, language, fs) ==
    IF fileList = <<>> THEN <<>>
    ELSE LET filePath == Head(fileList)
             src == fs[filePath]
             fixedImports == extractImports(fixedFile, fs[fixedFile], language)
             relScore == relatednessScore(filePath, fixedFile,
                                          extractImports(filePath, src, language), fixedImports)
         IN (IF ReadFails(src) \/ ParseFails(src, language) THEN <<>>
             ELSE ScanTemplates(ts, filePath, src, relScore, severity))
            \o ScanFiles(Tail(fileList), fixedFile, severity, ts, language, fs)

selectInjectionPoints(fileList, fixedFile, severity, ts, language, fs) ==
    SortByScore(ScanFiles(fileList, fixedFile, severity, ts, language, fs))

RECURSIVE DiversityPass_repeat(_, _, _, _, _)
DiversityPass_repeat(ranked, k, n, sel, usedFiles) ==
    IF k > Len(ranked) \/ Len(sel) >= n THEN sel
    ELSE DiversityPass_repeat(ranked, k + 1, n, Append(sel, k), usedFiles)

\* first pass of injectBugs: one candidate per distinct file; sel holds indices into ranked
RECURSIVE DiversityPass(_, _, _, _, _)
DiversityPass(ranked, k, n, sel, usedFiles) ==
    IF k > Len(ranked) \/ Len(sel) >= n THEN sel
    ELSE IF ranked[k].file \notin usedFiles
         THEN DiversityPass(ranked, k + 1, n, Append(sel, k), usedFiles \cup {ranked[k].file})
         ELSE DiversityPass(ranked, k + 1, n, sel, usedFiles)

\* second pass: fill the remaining slots in rank order
RECURSIVE FillPass(_, _, _, _)
FillPass(ranked, k, n, sel) ==
    IF k > Len(ranked) \/ Len(sel) >= n THEN sel
    ELSE IF \A j \in 1..Len(sel) : sel[j] # k
         THEN FillPass(ranked, k + 1, n, Append(sel, k))
         ELSE FillPass(ranked, k + 1, n, sel)

SelectCandidates_nofill(ranked, n) ==
    LET first == DiversityPass(ranked, 1, n, <<>>, {})
    IN [k \in 1..Len(first) |-> ranked[first[k]]]

SelectCandidates(ranked, n) ==
    LET first == DiversityPass(ranked, 1, n, <<>>, {})
        all == IF Len(first) < n THEN FillPass(ranked, 1, n, first) ELSE first
    IN [k \in 1..Len(all) |-> ranked[all[k]]]

\* template.inject: the line adapters build a new lines array from the parsed
\* value and the point's recorded line; the tree adapter rewrites the node in place
replaceLine(parsed, lineIndex, newLine) == [parsed EXCEPT ![lineIndex] = newLine]

InjectLines(parsed, point) == replaceLine(parsed, point.lineIndex, Mutate(point.line))

InjectTree(ast, point) == [ast EXCEPT ![point.lineIndex] = Mutate(@)]

generateCode(parsed) == parsed

\* ---------------------------------------------------------------- state
VARIABLES
    files,       \* file system: path -> content
    lang,        \* language of the project's source files
    mem,         \* manifest object of the running process
    disk,        \* .hydra-manifest.json
    now,         \* wall clock
    pc,          \* position of the infest command
    session,     \* number of infest sessions started
    scanned,     \* number of defects the scanner has reported so far
    bugs,        \* result of scanDirectory
    cur,         \* loop index i of the fix-and-inject loop
    ratio,       \* --ratio
    fixedFile,   \* fixResult.file
    selected,    \* candidates of injectBugs not yet applied
    parsedObj,   \* the parsed value shared by the candidates of one file
    results,     \* results of injectBugs not yet recorded
    lastOp,      \* the operation that produced this state
    complete,    \* history: the last infest session ran to its end
    hist,        \* history: one entry per file write made by applyInjection
    lastWriter,  \* history: per file, index in hist of the write that set its content
    templates,   \* adapter.templates of the loaded adapter
    ranked,      \* result of selectInjectionPoints inside injectBugs
    scope,       \* options.scope
    adapterCache, \* _adapterCache of the language registry: language -> adapter object
    calls,       \* the getAdapter calls of the process and where each one stands
    loaderRuns,  \* history: per language, how often its adapter loader was started
    input,       \* argument of the library function under study
    output       \* what that function returned

vars == <<files, lang, mem, disk, now, pc, session, scanned, bugs, cur, ratio, fixedFile,
          selected, parsedObj, results, lastOp, complete, hist, lastWriter,
          templates, ranked, scope, adapterCache, calls, loaderRuns, input, output>>

\* the language registry and the library functions studied on their own
libVars == <<adapterCache, calls, loaderRuns, input, output>>

\* nothing loaded, no call made, no function applied
LibIdle ==
    /\ adapterCache = [l \in Languages |-> 0]
    /\ calls = <<>>
    /\ loaderRuns = [l \in Languages |-> 0]
    /\ input = <<>>
    /\ output = <<>>

\* what the injection engine is given and its ranked list
engineVars == <<templates, ranked, scope>>

procVars == <<pc, bugs, cur, ratio, fixedFile, selected, parsedObj, results>>

Op(name, ok, arg, errs) == [op |-> name, ok |-> ok, arg |-> arg, errs |-> errs]

NoParsed == [f \in FileSet |-> CleanFile]

Init ==
    /\ files = [f \in FileSet |-> CleanFile]
    /\ lang \in Languages
    /\ mem = NoManifest
    /\ disk = NoManifest
    /\ now = 1
    /\ pc = "idle"
    /\ session = 0
    /\ scanned = 0
    /\ bugs = <<>>
    /\ cur = 0
    /\ ratio = 0
    /\ fixedFile = Files[1]
    /\ selected = <<>>
    /\ parsedObj = NoParsed
    /\ results = <<>>
    /\ lastOp = Op("step", TRUE, 0, 0)
    /\ complete = FALSE
    /\ hist = <<>>
    /\ lastWriter = [f \in FileSet |-> 0]
    /\ templates = Templates
    /\ ranked = <<>>
    /\ scope = "root"
    /\ LibIdle

\* the process ends: its in-memory state is gone
ProcessExit ==
    /\ pc' = "idle"
    /\ mem' = NoManifest
    /\ bugs' = <<>>
    /\ cur' = 0
    /\ ratio' = 0
    /\ fixedFile' = Files[1]
    /\ selected' = <<>>
    /\ parsedObj' = NoParsed
    /\ results' = <<>>

FileIndex(f) == CHOOSE i \in 1..Len(Files) : Files[i] = f

\* what the scanner can report: defects not yet repaired, files in scan order
OpenDefects(fs) == {d \in [file : FileSet, line : 1..NumLines] : ~IsFixed(fs[d.file][d.line])}

ValidScan(s) ==
    \A i \in 1..Len(s) : \A j \in 1..Len(s) :
        i < j => \/ FileIndex(s[i].file) < FileIndex(s[j].file)
                 \/ s[i].file = s[j].file /\ s[i].line < s[j].line

ScanResults(fs, most) ==
    {s \in UNION {[1..n -> OpenDefects(fs)] : n \in 0..most} : ValidScan(s)}

\* ------------------------------------------------------------ cli: infest
\* infest --dry-run with phase 1 run as without the flag
InfestDryRun_branch ==
    /\ UNCHANGED <<engineVars, libVars>>
    /\ pc = "idle"
    /\ \E scan \in ScanResults(files, MaxBugs - scanned) : lastOp' = Op("dryRun", TRUE, Len(scan), 0)
    /\ session' = session + 1
    /\ UNCHANGED <<files, lang, mem, disk, now, scanned, complete, hist, lastWriter>>
    /\ UNCHANGED procVars

\* infest --dry-run: the scan and the preview; arg is the number of bugs found
InfestDryRun ==
    /\ UNCHANGED <<engineVars, libVars>>
    /\ pc = "idle"
    /\ \E scan \in ScanResults(files, MaxBugs - scanned) : lastOp' = Op("dryRun", TRUE, Len(scan), 0)
    /\ UNCHANGED <<files, lang, mem, disk, now, session, scanned, complete, hist, lastWriter>>
    /\ UNCHANGED procVars

\* phases 1-3: branch, scan, createManifest
InfestStart ==
    /\ UNCHANGED <<engineVars, libVars>>
    /\ pc = "idle"
    /\ \E scan \in ScanResults(files, MaxBugs - scanned), r \in 1..MaxRatio :
          IF scan = <<>>
          THEN /\ lastOp' = Op("step", TRUE, 0, 0)
               /\ UNCHANGED <<mem, disk, complete, hist, lastWriter, session, scanned>>
               /\ UNCHANGED procVars
          ELSE LET c == createManifest(disk, session + 1)
               IN /\ mem' = c.mem
                  /\ disk' = c.disk
                  /\ session' = session + 1
                  /\ scanned' = scanned + Len(scan)
                  /\ pc' = "fix"
                  /\ bugs' = scan
                  /\ cur' = 1
                  /\ ratio' = r
                  /\ complete' = FALSE
                  /\ hist' = <<>>
                  /\ lastWriter' = [f \in FileSet |-> 0]
                  /\ lastOp' = Op("step", TRUE, 0, 0)
                  /\ UNCHANGED <<fixedFile, selected, parsedObj, results>>
    /\ UNCHANGED <<files, lang, now>>

\* end of one iteration of the fix-and-inject loop
Advance ==
    IF cur < Len(bugs)
    THEN pc' = "fix" /\ cur' = cur + 1
    ELSE pc' = "final" /\ cur' = cur

\* fixBug wrote the repaired file; the fix is recorded
FixBug ==
    /\ UNCHANGED <<engineVars, libVars>>
    /\ pc = "fix"
    /\ \E changed \in BOOLEAN :
          LET bug == bugs[cur]
              r == addRealFix(disk, mem, [file |-> bug.file, line |-> bug.line,
                                          description |-> IF changed THEN "fixed" ELSE "No change applied"])
          IN /\ files' = IF changed THEN [files EXCEPT ![bug.file][bug.line] = Repair(@)] ELSE files
             /\ lastWriter' = IF changed THEN [lastWriter EXCEPT ![bug.file] = 0] ELSE lastWriter
             /\ mem' = r.mem
             /\ disk' = r.disk
             /\ fixedFile' = bug.file
             /\ lastOp' = Op("step", TRUE, 0, 0)
    /\ pc' = "inject"
    /\ UNCHANGED <<lang, now, session, scanned, complete, bugs, cur, ratio, selected, parsedObj, results, hist>>

\* fixBug threw: the loop continues with the next bug
FixBugFails ==
    /\ UNCHANGED <<engineVars, libVars>>
    /\ pc = "fix"
    /\ Advance
    /\ lastOp' = Op("step", TRUE, 0, 0)
    /\ UNCHANGED <<files, lang, mem, disk, now, session, scanned, complete, bugs, ratio, fixedFile,
                   selected, parsedObj, results, hist, lastWriter>>

\* injectBugs up to the end of the two selection passes
InjectSelect ==
    /\ UNCHANGED <<engineVars, libVars>>
    /\ pc = "inject"
    /\ LET found == collectCandidateFiles(scope, fixedFile, lang, files)
           candidateFiles == IF found = <<>> THEN <<fixedFile>> ELSE found
           list == selectInjectionPoints(candidateFiles, fixedFile, DefaultSeverity, templates, lang, files)
           sel == SelectCandidates(list, ratio)
       IN /\ selected' = sel
          /\ parsedObj' = IF sel = <<>> THEN NoParsed ELSE files
          /\ IF sel = <<>> THEN Advance ELSE pc' = "apply" /\ cur' = cur
          /\ lastOp' = Op("step", TRUE, 0, 0)
    /\ results' = <<>>
    /\ UNCHANGED <<files, lang, mem, disk, now, session, scanned, complete, bugs, ratio, fixedFile, hist, lastWriter>>

\* the batch is over when the last selected candidate has been tried
AfterApply(rest, res) ==
    /\ selected' = rest
    /\ results' = res
    /\ IF rest # <<>> THEN pc' = "apply" /\ cur' = cur
       ELSE IF res # <<>> THEN pc' = "record" /\ cur' = cur
       ELSE Advance

\* one iteration of the apply loop of injectBugs
ApplyInjection ==
    /\ UNCHANGED <<engineVars, libVars>>
    /\ pc = "apply"
    /\ selected # <<>>
    /\ LET c == Head(selected)
           parsed == parsedObj[c.file]
           mutatedParsed == IF lang = "javascript" THEN InjectTree(parsed, c.injectionPoint)
                            ELSE InjectLines(parsed, c.injectionPoint)
           injectedCode == generateCode(mutatedParsed)
       IN /\ parsedObj' = IF lang = "javascript" THEN [parsedObj EXCEPT ![c.file] = mutatedParsed]
                          ELSE parsedObj
          /\ IF injectedCode = c.originalCode
             THEN /\ AfterApply(Tail(selected), results)
                  /\ lastOp' = Op("step", TRUE, 0, 0)
                  /\ UNCHANGED <<files, hist, lastWriter>>
             ELSE /\ files' = [files EXCEPT ![c.file] = injectedCode]
                  /\ hist' = Append(hist, [file |-> c.file, before |-> files[c.file], after |-> injectedCode])
                  /\ lastWriter' = [lastWriter EXCEPT ![c.file] = Len(hist) + 1]
                  /\ AfterApply(Tail(selected),
                                Append(results, [file |-> c.file, line |-> c.injectionPoint.lineIndex,
                                                 originalCode |-> c.originalCode,
                                                 injectedCode |-> injectedCode]))
                  /\ lastOp' = Op("step", TRUE, 0, 0)
    /\ UNCHANGED <<lang, mem, disk, now, session, scanned, complete, bugs, ratio, fixedFile>>

\* the recording step with the parent taken from the loop index
RecordInjection_byIndex ==
    /\ UNCHANGED <<engineVars, libVars>>
    /\ pc = "record"
    /\ results # <<>>
    /\ LET injection == Head(results)
           r == addInjectedBug(disk, mem, [parentFix |-> FixId(cur),
                                           file |-> injection.file, line |-> injection.line,
                                           originalCode |-> injection.originalCode])
       IN /\ mem' = r.mem
          /\ disk' = r.disk
          /\ lastOp' = Op("step", TRUE, 0, 0)
    /\ results' = Tail(results)
    /\ IF Tail(results) = <<>> THEN Advance ELSE pc' = "record" /\ cur' = cur
    /\ UNCHANGED <<files, lang, now, session, scanned, complete, bugs, ratio, fixedFile, selected, parsedObj, hist, lastWriter>>

\* cli loop: addInjectedBug for the next result of the batch
RecordInjection ==
    /\ UNCHANGED <<engineVars, libVars>>
    /\ pc = "record"
    /\ results # <<>>
    /\ LET injection == Head(results)
           r == addInjectedBug(disk, mem, [parentFix |-> FixId(Len(mem.realFixes)),
                                           file |-> injection.file, line |-> injection.line,
                                           originalCode |-> injection.originalCode])
       IN /\ mem' = r.mem
          /\ disk' = r.disk
          /\ lastOp' = Op("step", TRUE, 0, 0)
    /\ results' = Tail(results)
    /\ IF Tail(results) = <<>> THEN Advance ELSE pc' = "record" /\ cur' = cur
    /\ UNCHANGED <<files, lang, now, session, scanned, complete, bugs, ratio, fixedFile, selected, parsedObj, hist, lastWriter>>

\* final saveManifest, push, exit
InfestFinish ==
    /\ UNCHANGED <<engineVars, libVars>>
    /\ pc = "final"
    /\ disk' = saveManifest(disk, mem)
    /\ ProcessExit
    /\ lastOp' = Op("step", TRUE, 0, 0)
    /\ complete' = TRUE
    /\ UNCHANGED <<files, lang, now, session, scanned, hist, lastWriter>>

\* the infest process is interrupted
Crash ==
    /\ UNCHANGED <<engineVars, libVars>>
    /\ pc # "idle"
    /\ ProcessExit
    /\ lastOp' = Op("crash", FALSE, 0, 0)
    /\ UNCHANGED <<files, lang, disk, now, session, scanned, complete, hist, lastWriter>>

\* ------------------------------------------------- cli: the other commands
\* found <bugId> --reviewer <name>
Found ==
    /\ UNCHANGED <<engineVars, libVars>>
    /\ pc = "idle"
    /\ now < MaxClock
    /\ now' = now + 1
    /\ \E n \in 1..(Len(disk.injectedBugs) + 1), reviewer \in CliReviewers :
          IF ~disk.exists
          THEN /\ lastOp' = Op("read", TRUE, 0, 0)
               /\ UNCHANGED disk
          ELSE LET r == markDiscovered(disk, loadManifest(disk), HydraId(n), reviewer, ISO[now + 1])
               IN /\ disk' = IF r.threw THEN disk ELSE saveManifest(r.disk, r.mem)
                  /\ lastOp' = Op("step", TRUE, 0, 0)
    /\ UNCHANGED <<files, lang, mem, session, scanned, complete, hist, lastWriter>>
    /\ UNCHANGED procVars

\* purge that deletes the manifest once the bugs are reverted
Purge_forget ==
    /\ UNCHANGED <<engineVars, libVars>>
    /\ pc = "idle"
    /\ IF ~disk.exists \/ disk.injectedBugs = <<>>
       THEN /\ lastOp' = Op("read", TRUE, 0, 0)
            /\ UNCHANGED <<files, lastWriter>>
       ELSE LET m == loadManifest(disk)
                r == revertAllInjections(files, m)
            IN /\ files' = r.fs
               /\ lastWriter' = [f \in FileSet |->
                                   IF \E k \in 1..Len(m.injectedBugs) : m.injectedBugs[k].file = f
                                   THEN 0 ELSE lastWriter[f]]
               /\ lastOp' = Op("purge", TRUE, r.reverted, r.errors)
    /\ disk' = IF ~disk.exists \/ disk.injectedBugs = <<>> THEN disk ELSE NoManifest
    /\ UNCHANGED <<lang, mem, now, session, scanned, complete, hist>>
    /\ UNCHANGED procVars

\* purge
Purge ==
    /\ UNCHANGED <<engineVars, libVars>>
    /\ pc = "idle"
    /\ IF ~disk.exists \/ disk.injectedBugs = <<>>
       THEN /\ lastOp' = Op("read", TRUE, 0, 0)
            /\ UNCHANGED <<files, lastWriter>>
       ELSE LET m == loadManifest(disk)
                r == revertAllInjections(files, m)
            IN /\ files' = r.fs
               /\ lastWriter' = [f \in FileSet |->
                                   IF \E k \in 1..Len(m.injectedBugs) : m.injectedBugs[k].file = f
                                   THEN 0 ELSE lastWriter[f]]
               /\ lastOp' = Op("purge", TRUE, r.reverted, r.errors)
    /\ UNCHANGED <<lang, mem, disk, now, session, scanned, complete, hist>>
    /\ UNCHANGED procVars

\* status, reveal, score: read the manifest and print
ReadOnlyCommand ==
    /\ UNCHANGED <<engineVars, libVars>>
    /\ pc = "idle"
    /\ lastOp' = Op("read", TRUE, 0, 0)
    /\ UNCHANGED <<files, lang, mem, disk, now, session, scanned, complete, hist, lastWriter>>
    /\ UNCHANGED procVars

\* reverter API: revertSingleInjection on the loaded manifest
RevertSingle ==
    /\ UNCHANGED <<engineVars, libVars>>
    /\ pc = "idle"
    /\ disk.exists
    /\ \E n \in 1..(Len(disk.injectedBugs) + 1) :
          LET m == loadManifest(disk)
              r == revertSingleInjection(files, m, HydraId(n))
          IN /\ files' = r.fs
             /\ lastWriter' = IF r.success THEN [lastWriter EXCEPT ![m.injectedBugs[n].file] = 0]
                              ELSE lastWriter
             /\ lastOp' = Op("revertSingle", r.success, n, 0)
    /\ UNCHANGED <<lang, mem, disk, now, session, scanned, complete, hist>>
    /\ UNCHANGED procVars

Next ==
    \/ InfestDryRun
    \/ InfestStart
    \/ FixBug
    \/ FixBugFails
    \/ InjectSelect
    \/ ApplyInjection
    \/ RecordInjection
    \/ InfestFinish
    \/ Crash
    \/ Found
    \/ Purge
    \/ ReadOnlyCommand
    \/ RevertSingle

Spec == Init /\ [][Next]_vars

\* --------------------------------------------- the manifest module as an API
\* A client that holds one manifest object and calls the exported functions of
\* core/manifest.js with arguments of its own choosing.
apiFrame == <<files, lang, pc, session, scanned, bugs, cur, ratio, fixedFile,
              selected, parsedObj, results, lastOp, complete, hist, lastWriter,
              templates, ranked, scope, libVars>>

ApiCreateManifest ==
    /\ LET r == createManifest(disk, 1)
       IN mem' = r.mem /\ disk' = r.disk
    /\ UNCHANGED now
    /\ UNCHANGED apiFrame

ApiAddRealFix ==
    /\ mem.exists
    /\ Len(mem.realFixes) < MaxApiFixes
    /\ \E f \in FileSet :
          LET r == addRealFix(disk, mem, [file |-> f, line |-> 1, description |-> "fixed"])
          IN mem' = r.mem /\ disk' = r.disk
    /\ UNCHANGED now
    /\ UNCHANGED apiFrame

ApiAddInjectedBug ==
    /\ mem.exists
    /\ Len(mem.injectedBugs) < MaxApiBugs
    /\ \E f \in FileSet, code \in {CleanFile} :
          LET r == addInjectedBug(disk, mem, [parentFix |-> FixId(Len(mem.realFixes)), file |-> f,
                                              line |-> 1, originalCode |-> code])
          IN mem' = r.mem /\ disk' = r.disk
    /\ UNCHANGED now
    /\ UNCHANGED apiFrame

\* the reviewer argument is whatever the caller passes, null and undefined included
ApiMarkDiscovered ==
    /\ mem.exists
    /\ \E n \in 1..(Len(mem.injectedBugs) + 1),
          reviewer \in ApiReviewers \cup {Null, Undefined},
          t \in {now, now + 1} :
          /\ t <= MaxClock
          /\ now' = t
          /\ LET r == markDiscovered(disk, mem, HydraId(n), reviewer, ISO[t])
             IN mem' = r.mem /\ disk' = r.disk
    /\ UNCHANGED apiFrame

ApiUpdateStats ==
    /\ mem.exists
    /\ LET r == updateStats(disk, mem)
       IN mem' = r.mem /\ disk' = r.disk
    /\ UNCHANGED now
    /\ UNCHANGED apiFrame

ApiLoadManifest ==
    /\ disk.exists
    /\ mem' = loadManifest(disk)
    /\ UNCHANGED <<disk, now>>
    /\ UNCHANGED apiFrame

ManifestNext ==
    \/ ApiCreateManifest
    \/ ApiAddRealFix
    \/ ApiAddInjectedBug
    \/ ApiMarkDiscovered
    \/ ApiUpdateStats
    \/ ApiLoadManifest

ManifestSpec == Init /\ [][ManifestNext]_vars

\* ------------------------------------------------------------- properties
\* positions of the bugs recorded for file f, in insertion order
BugsFor(m, f) == {k \in 1..Len(m.injectedBugs) : m.injectedBugs[k].file = f}

FirstFor(m, f) == CHOOSE k \in BugsFor(m, f) : \A j \in BugsFor(m, f) : k <= j

\* the k-th recorded bug is the k-th file write of the session
HistAligned ==
    \A k \in 1..Len(disk.injectedBugs) :
        k <= Len(hist) /\ hist[k].file = disk.injectedBugs[k].file

\* C1: after revertAllInjections has completed without errors, every file named
\* by an InjectedBug of the manifest holds the content it had immediately before
\* the earliest-inserted injection into it, never a state between two injections.
C1_RevertAllRestoresOldest ==
    (lastOp.op = "purge" /\ lastOp.errs = 0) =>
        \A f \in FileSet :
            BugsFor(disk, f) # {} => files[f] = hist[FirstFor(disk, f)].before

\* C1 witness: a purge has unwound a file that carries two injections from
\* different batches, whose snapshots differ.
C1_Witness ==
    /\ lastOp.op = "purge"
    /\ lastOp.errs = 0
    /\ \E f \in FileSet : \E j \in BugsFor(disk, f) : \E k \in BugsFor(disk, f) :
          /\ j < k
          /\ disk.injectedBugs[j].originalCode # disk.injectedBugs[k].originalCode

\* C2: if bug B was injected into file F and nothing wrote to F afterwards,
\* revertSingleInjection(manifest, B.id) leaves F equal to the content F had
\* immediately before B was injected.
C2_SingleRevertRestoresPreInjection ==
    [][\A n \in 1..Len(disk.injectedBugs) :
          ( /\ lastOp'.op = "revertSingle"
            /\ lastOp'.arg = n
            /\ lastOp'.ok
            /\ lastWriter[disk.injectedBugs[n].file] = n )
          => files'[disk.injectedBugs[n].file] = hist[n].before]_vars

\* C3: after an infest run that ran to its end, followed by revertAllInjections,
\* the change made by every recorded RealFix is still present in its file.
C3_RealFixesSurvivePurge ==
    (lastOp.op = "purge" /\ complete) =>
        \A k \in 1..Len(disk.realFixes) :
            disk.realFixes[k].description = "fixed" =>
                IsFixed(files[disk.realFixes[k].file][disk.realFixes[k].line])

\* C4: for every file, the originalCode of its k-th recorded InjectedBug (k >= 2)
\* is the file's content immediately before that k-th injection was written.
C4_SnapshotIsPreMutationContent ==
    \A k \in 1..Len(disk.injectedBugs) :
        (\E j \in 1..(k - 1) : disk.injectedBugs[j].file = disk.injectedBugs[k].file)
            => disk.injectedBugs[k].originalCode = hist[k].before

\* C5: when the infest process is interrupted, the manifest on disk holds an
\* InjectedBug entry, with its snapshot, for every injection already written to
\* a file.
C5_WrittenInjectionsAreRecorded ==
    lastOp.op = "crash" =>
        \A k \in 1..Len(hist) :
            /\ k <= Len(disk.injectedBugs)
            /\ disk.injectedBugs[k].file = hist[k].file

\* the part of an InjectedBug entry that discovery does not touch
Ledger(b) == [id |-> b.id, parentFix |-> b.parentFix, file |-> b.file, line |-> b.line,
              originalCode |-> b.originalCode]

\* C6: across all CLI operations the persisted manifest is append-only: an entry
\* once written is never removed or replaced, not even by a later infest session.
C6_PersistedManifestAppendOnly ==
    [][disk.exists =>
          /\ disk'.exists
          /\ Len(disk'.realFixes) >= Len(disk.realFixes)
          /\ \A k \in 1..Len(disk.realFixes) : disk'.realFixes[k] = disk.realFixes[k]
          /\ Len(disk'.injectedBugs) >= Len(disk.injectedBugs)
          /\ \A k \in 1..Len(disk.injectedBugs) :
                Ledger(disk'.injectedBugs[k]) = Ledger(disk.injectedBugs[k])]_vars

\* C7: after each of addRealFix, addInjectedBug, markDiscovered and updateStats
\* returns, the document on disk is the serialisation of the in-memory manifest.
C7_WriteThrough == mem.exists => disk = Stringify(mem)

\* C7 witness: a manifest holding a fix and a discovered bug has been written.
C7_Witness ==
    /\ mem.exists
    /\ Len(mem.realFixes) > 0
    /\ \E k \in 1..Len(mem.injectedBugs) : mem.injectedBugs[k].discoveredAt # Null
    /\ disk.stats.totalInjected = Len(mem.injectedBugs)

\* C8: stats is exactly the function of the two arrays: totalRealFixes and
\* totalInjected are their lengths, discovered counts the bugs with non-null
\* discoveredBy, and discovered + undiscovered = totalInjected.
C8_StatsDerived ==
    mem.exists =>
        /\ mem.stats.totalRealFixes = Len(mem.realFixes)
        /\ mem.stats.totalInjected = Len(mem.injectedBugs)
        /\ mem.stats.discovered = Len(SelectSeq(mem.injectedBugs, LAMBDA b : b.discoveredBy # Null))
        /\ mem.stats.discovered + mem.stats.undiscovered = mem.stats.totalInjected

\* C8 witness: a manifest with a fix, a discovered bug and an undiscovered bug.
C8_Witness ==
    /\ mem.exists
    /\ mem.stats.totalRealFixes = 1
    /\ mem.stats.discovered = 1
    /\ mem.stats.undiscovered = 1

\* C9: discoveredBy and discoveredAt are null when the bug is added, and once a
\* markDiscovered has set them a later markDiscovered does not change them.
C9_DiscoverySetAtMostOnce ==
    [][\A k \in 1..Len(mem'.injectedBugs) :
          IF k > Len(mem.injectedBugs)
          THEN mem'.injectedBugs[k].discoveredBy = Null /\ mem'.injectedBugs[k].discoveredAt = Null
          ELSE (mem.injectedBugs[k].discoveredBy # Null /\ mem.injectedBugs[k].discoveredAt # Null) =>
                  /\ mem'.injectedBugs[k].discoveredBy = mem.injectedBugs[k].discoveredBy
                  /\ mem'.injectedBugs[k].discoveredAt = mem.injectedBugs[k].discoveredAt]_vars

\* C10: discovery is one-way: a bug that counts as discovered never returns to
\* undiscovered, stats.discovered never decreases and getUndiscoveredBugs never
\* regains a bug, whatever reviewer argument is passed.
C10_DiscoveryOneWay ==
    [][Len(mem'.injectedBugs) >= Len(mem.injectedBugs) =>
          /\ \A k \in 1..Len(mem.injectedBugs) :
                mem.injectedBugs[k].discoveredBy # Null => mem'.injectedBugs[k].discoveredBy # Null
          /\ mem'.stats.discovered >= mem.stats.discovered
          /\ Len(getUndiscoveredBugs(mem')) <= Len(getUndiscoveredBugs(mem))
                + (Len(mem'.injectedBugs) - Len(mem.injectedBugs))]_vars

\* ------------------------------------------- the ledger: the two append calls
\* A client that creates one manifest and then only appends to it.  The objects
\* it passes are its own: some carry an id property of their own, as an entry
\* copied from another manifest does.
MaxLedger == 2

ledgerFrame == <<files, lang, now, pc, session, scanned, bugs, cur, ratio, fixedFile,
                 selected, parsedObj, results, lastOp, complete, hist, lastWriter,
              templates, ranked, scope, libVars>>

FixArgs ==
    [file : FileSet, line : {1}, description : {"fixed"}]
        \cup [id : {FixId(1)}, file : FileSet, line : {1}, description : {"fixed"}]

BugArgs ==
    [parentFix : {FixId(1)}, file : FileSet, line : {1}, originalCode : {CleanFile}]
        \cup [id : {HydraId(1)}, parentFix : {FixId(1)}, file : FileSet, line : {1},
              originalCode : {CleanFile}]

LedgerCreate ==
    /\ ~mem.exists
    /\ LET r == createManifest(disk, 1)
       IN mem' = r.mem /\ disk' = r.disk
    /\ UNCHANGED ledgerFrame

LedgerAddRealFix ==
    /\ mem.exists
    /\ Len(mem.realFixes) < MaxLedger
    /\ \E fix \in FixArgs :
          LET r == addRealFix(disk, mem, fix)
          IN mem' = r.mem /\ disk' = r.disk
    /\ UNCHANGED ledgerFrame

LedgerAddInjectedBug ==
    /\ mem.exists
    /\ Len(mem.injectedBugs) < MaxLedger
    /\ \E bug \in BugArgs :
          LET r == addInjectedBug(disk, mem, bug)
          IN mem' = r.mem /\ disk' = r.disk
    /\ UNCHANGED ledgerFrame

LedgerNext ==
    \/ LedgerCreate
    \/ LedgerAddRealFix
    \/ LedgerAddInjectedBug

LedgerSpec == Init /\ [][LedgerNext]_vars

MaxRevert == 2

MutatedFile == [CleanFile EXCEPT ![1] = Mutate(@)]

RevertArgs == [parentFix : {FixId(1)}, file : FileSet, line : {1},
               originalCode : {CleanFile, MutatedFile, NullCode}]

RECURSIVE BuildManifest(_, _)
BuildManifest(r, args) ==
    IF args = <<>> THEN r
    ELSE BuildManifest(addInjectedBug(r.disk, r.mem, Head(args)), Tail(args))

RevertInit ==
    /\ files \in [FileSet -> {CleanFile, MutatedFile, Missing}]
    /\ lang \in Languages
    /\ mem = NoManifest
    /\ \E args \in UNION {[1..n -> RevertArgs] : n \in 0..MaxRevert} :
          disk = BuildManifest(createManifest(NoManifest, 1), args).disk
    /\ now = 1
    /\ pc = "idle"
    /\ session = 1
    /\ scanned = 0
    /\ bugs = <<>>
    /\ cur = 0
    /\ ratio = 0
    /\ fixedFile = Files[1]
    /\ selected = <<>>
    /\ parsedObj = NoParsed
    /\ results = <<>>
    /\ lastOp = Op("step", TRUE, 0, 0)
    /\ complete = TRUE
    /\ hist = <<>>
    /\ lastWriter = [f \in FileSet |-> 0]
    /\ templates = Templates
    /\ ranked = <<>>
    /\ scope = "root"
    /\ LibIdle

revertFrame == <<lang, mem, disk, now, pc, session, scanned, bugs, cur, ratio, fixedFile,
                 selected, parsedObj, results, complete, hist, lastWriter,
              templates, ranked, scope, libVars>>

\* revertAllInjections(loadManifest())
RevertAll ==
    /\ LET r == revertAllInjections(files, loadManifest(disk))
       IN /\ files' = r.fs
          /\ lastOp' = Op("revertAll", TRUE, r.reverted, r.errors)
    /\ UNCHANGED revertFrame

\* revertSingleInjection(loadManifest(), bugId), for an id that may not exist
RevertOne ==
    /\ \E n \in 1..(Len(disk.injectedBugs) + 1) :
          LET r == revertSingleInjection(files, loadManifest(disk), HydraId(n))
          IN /\ files' = r.fs
             /\ lastOp' = Op("revertSingle", r.success, n, 0)
    /\ UNCHANGED revertFrame

RevertNext ==
    \/ RevertAll
    \/ RevertOne

RevertSpec == RevertInit /\ [][RevertNext]_vars

\* the entries whose revert cannot succeed: no snapshot, or no file
Failing(fs, m) ==
    {k \in 1..Len(m.injectedBugs) :
        m.injectedBugs[k].originalCode = NullCode \/ fs[m.injectedBugs[k].file] = Missing}

\* C12: revertAllInjections attempts every InjectedBug: each bug whose file or
\* snapshot is missing adds exactly one entry to errors, every other bug is
\* reverted although others failed, reverted + errors.length is the number of
\* injectedBugs, and the call returns normally.
C12_RevertAllCollectsErrors ==
    [][lastOp'.op = "revertAll" =>
          LET m == loadManifest(disk)
              r == revertAllInjections(files, m)
              bad == Failing(files, m)
              good == (1..Len(m.injectedBugs)) \ bad
          IN /\ lastOp'.ok
             /\ lastOp'.arg + lastOp'.errs = Len(m.injectedBugs)
             /\ lastOp'.errs = Cardinality(bad)
             /\ Len(r.log) = Cardinality(bad)
             /\ \A k \in bad : Cardinality({j \in 1..Len(r.log) : r.log[j] = m.injectedBugs[k].id}) = 1
             /\ \A k \in good :
                   LET same == {j \in good : m.injectedBugs[j].file = m.injectedBugs[k].file}
                       first == CHOOSE j \in same : \A i \in same : j <= i
                   IN files'[m.injectedBugs[k].file] = m.injectedBugs[first].originalCode
             /\ \A f \in FileSet : files[f] = Missing => files'[f] = Missing]_vars

\* C12 witness: a revertAll in which the bug processed first failed for want of a
\* snapshot and the bug processed after it was still reverted to its snapshot.
C12_Witness ==
    /\ lastOp.op = "revertAll"
    /\ lastOp.errs = 1
    /\ lastOp.arg = 1
    /\ disk.injectedBugs[2].originalCode = NullCode
    /\ files[disk.injectedBugs[1].file] = MutatedFile

\* --------------------------------------------- injectBugs up to the selection
\* One call of injectBugs(fix, { ratio, scope }) for a fix of file a, on a tree
\* whose other files may be absent, unreadable or unparseable, with an adapter
\* whose template directory holds three templates.
AwaitFile == [l \in 1..NumLines |-> IF l = 1 THEN "await" ELSE CleanLine]
KnotFile == [l \in 1..NumLines |-> IF l = 1 THEN "knot" ELSE CleanLine]

TemplateDir == {NegationStrip, LogicInversion, AsyncRace}

\* what readdirSync may return for the template directory: its entries in any order
Listings ==
    {l \in [1..Cardinality(TemplateDir) -> TemplateDir] : \A i, j \in DOMAIN l : i # j => l[i] # l[j]}

\* the order of Array.prototype.sort on the file names
NameRank(t) == IF t.name = "async-race" THEN 1 ELSE IF t.name = "logic-inversion" THEN 2 ELSE 3

SortByName(listing) ==
    [k \in 1..Len(listing) |->
        CHOOSE t \in {listing[i] : i \in 1..Len(listing)} :
            Cardinality({u \in {listing[i] : i \in 1..Len(listing)} : NameRank(u) < NameRank(t)}) = k - 1]

\* loadPythonTemplates sorts the listing, the JavaScript loader keeps its order
loadTemplates(language, listing) ==
    IF language = "python" THEN SortByName(listing) ELSE listing

EngineInit ==
    /\ files \in [Paths -> {CleanFile, AwaitFile, KnotFile, Missing, Unreadable, Garbled}]
    /\ files["a"] \in {CleanFile, AwaitFile}
    /\ files["p"] \in {CleanFile, Missing}
    /\ lang \in Languages
    /\ scope \in {"root", "lib"}
    /\ LibIdle
    /\ ratio \in 0..MaxRatio
    /\ fixedFile = "a"
    /\ templates = <<>>
    /\ ranked = <<>>
    /\ selected = <<>>
    /\ pc = "load"
    /\ mem = NoManifest
    /\ disk = NoManifest
    /\ now = 1
    /\ session = 0
    /\ scanned = 0
    /\ bugs = <<>>
    /\ cur = 0
    /\ parsedObj = NoParsed
    /\ results = <<>>
    /\ lastOp = Op("step", TRUE, 0, 0)
    /\ complete = FALSE
    /\ hist = <<>>
    /\ lastWriter = [f \in FileSet |-> 0]

engineFrame == <<files, lang, mem, disk, now, session, scanned, bugs, cur, ratio, fixedFile,
                 parsedObj, results, lastOp, complete, hist, lastWriter, scope, libVars>>

\* getAdapter: the templates are loaded in the order the directory was listed
LoadAdapter ==
    /\ pc = "load"
    /\ \E listing \in Listings : templates' = loadTemplates(lang, listing)
    /\ pc' = "rank"
    /\ UNCHANGED <<ranked, selected>>
    /\ UNCHANGED engineFrame

\* collectCandidateFiles with the self-injection fallback
CandidateFiles ==
    LET found == collectCandidateFiles(scope, fixedFile, lang, files)
    IN IF found = <<>> /\ files[fixedFile] # Missing THEN <<fixedFile>> ELSE found

\* candidate discovery and ranking
RankCandidates ==
    /\ pc = "rank"
    /\ ranked' = selectInjectionPoints(CandidateFiles, fixedFile, DefaultSeverity, templates, lang, files)
    /\ pc' = IF ranked' = <<>> THEN "done" ELSE "pick"
    /\ UNCHANGED <<templates, selected>>
    /\ UNCHANGED engineFrame

\* the diversity pass and the fill pass
PickCandidates ==
    /\ pc = "pick"
    /\ selected' = SelectCandidates(ranked, ratio)
    /\ pc' = "picked"
    /\ UNCHANGED <<templates, ranked>>
    /\ UNCHANGED engineFrame

EngineNext ==
    \/ LoadAdapter
    \/ RankCandidates
    \/ PickCandidates

EngineSpec == EngineInit /\ [][EngineNext]_vars

\* the files that have at least one ranked candidate
RankedFiles == {ranked[k].file : k \in 1..Len(ranked)}

\* position in the ranked list of a candidate (candidates are pairwise different)
RankOf(c) == CHOOSE k \in 1..Len(ranked) : ranked[k] = c

\* positions of the first candidate of each file: what the diversity pass may take
FirstOfFile == {k \in 1..Len(ranked) : \A j \in 1..(k - 1) : ranked[j].file # ranked[k].file}

\* C13: if ratio is at most the number of distinct files with a ranked candidate,
\* the selected candidates belong to pairwise different files.
C13_NoFileTwice ==
    (pc = "picked" /\ ratio <= Cardinality(RankedFiles)) =>
        \A i \in 1..Len(selected) : \A j \in 1..Len(selected) :
            i # j => selected[i].file # selected[j].file

\* C13 witness: two files qualify, the two best candidates lie in the same file,
\* and ratio 2 has selected one candidate from each file.
C13_Witness ==
    /\ pc = "picked"
    /\ ratio = 2
    /\ Cardinality(RankedFiles) = 2
    /\ ranked[1].file = ranked[2].file
    /\ Len(selected) = 2
    /\ selected[1].file # selected[2].file

\* C14: injectBugs selects exactly min(ratio, number of ranked candidates)
\* candidates, none of them twice; the slots the diversity pass leaves open are
\* filled with the best-ranked candidates not yet taken, in rank order.
C14_ExactCount ==
    pc = "picked" =>
        LET d == Min(ratio, Cardinality(FirstOfFile))
            rest == (1..Len(ranked)) \ {RankOf(selected[i]) : i \in 1..Min(d, Len(selected))}
        IN /\ Len(selected) = Min(ratio, Len(ranked))
           /\ \A i \in 1..Len(selected) : \A j \in 1..Len(selected) :
                 i # j => selected[i] # selected[j]
           /\ \A i \in 1..Len(selected) : \E k \in 1..Len(ranked) : ranked[k] = selected[i]
           /\ \A i \in 1..Len(selected) :
                 IF i <= d
                 THEN /\ RankOf(selected[i]) \in FirstOfFile
                      /\ Cardinality({k \in FirstOfFile : k < RankOf(selected[i])}) = i - 1
                 ELSE /\ RankOf(selected[i]) \in rest
                      /\ Cardinality({k \in rest : k < RankOf(selected[i])}) = i - d - 1

\* C14 witness: one file with two points qualifies and ratio 2 has selected both
\* points of that file.
C14_Witness ==
    /\ pc = "picked"
    /\ ratio = 2
    /\ Cardinality(RankedFiles) = 1
    /\ Len(selected) = 2
    /\ selected[1].file = selected[2].file
    /\ selected[1] # selected[2]

\* the candidates in the order of discovery: files, then templates, then points
Discovered == ScanFiles(CandidateFiles, fixedFile, DefaultSeverity, templates, lang, files)

DiscoveryOf(c) == CHOOSE k \in 1..Len(Discovered) : Discovered[k] = c

\* C15: the list returned by selectInjectionPoints holds the discovered
\* candidates by non-increasing score, and candidates of equal score keep their
\* discovery order.
C15_SortedStable ==
    pc = "pick" =>
        /\ Len(ranked) = Len(Discovered)
        /\ \A k \in 1..Len(Discovered) : \E i \in 1..Len(ranked) : ranked[i] = Discovered[k]
        /\ \A i \in 1..Len(ranked) : \A j \in 1..Len(ranked) :
              i < j => /\ ranked[i].score >= ranked[j].score
                       /\ ranked[i].score = ranked[j].score
                            => DiscoveryOf(ranked[i]) < DiscoveryOf(ranked[j])

\* C15 witness: a ranked list with two candidates of equal score from different
\* templates and with a candidate that the sort moved ahead of one discovered
\* before it.
C15_Witness ==
    /\ pc = "pick"
    /\ \E i \in 1..Len(ranked) : \E j \in 1..Len(ranked) :
          i < j /\ ranked[i].score = ranked[j].score /\ ranked[i].template # ranked[j].template
    /\ \E i \in 1..Len(ranked) : \E j \in 1..Len(ranked) :
          i < j /\ DiscoveryOf(ranked[i]) > DiscoveryOf(ranked[j])

\* C16: selection on the same files, fix, severity and template set returns the
\* same ranked list whatever order the template directory was listed in.
C16_RankingIndependentOfListing ==
    pc = "pick" =>
        \A listing \in Listings :
            selectInjectionPoints(CandidateFiles, fixedFile, DefaultSeverity,
                                  loadTemplates(lang, listing), lang, files) = ranked

\* the source files of any supported language that exist under the scope
SourceFilesInScope == {f \in Paths : files[f] # Missing /\ InScope(f, scope)}

\* C17: every file selected for mutation is a source file under the scope, and
\* the fixed file is selected only when no other source file exists under the
\* scope.
C17_FixedFileOnlyAsLastResort ==
    pc = "picked" =>
        \A k \in 1..Len(selected) :
            /\ selected[k].file \in SourceFilesInScope
            /\ selected[k].file = fixedFile => SourceFilesInScope = {fixedFile}

\* the line numbers of the ranked candidates of file f found by template t
RankedPoints(f, t) ==
    {ranked[k].injectionPoint.lineIndex :
        k \in {i \in 1..Len(ranked) : ranked[i].file = f /\ ranked[i].template = t}}

Usable(f) == ~ReadFails(files[f]) /\ ~ParseFails(files[f], lang)

\* C19: a candidate file that cannot be read or parsed contributes nothing and
\* every other file is still scanned; a template whose findInjectionPoints throws
\* or finds nothing on a file is skipped for that file only, so that for every
\* usable file and every template that does not throw on it the ranked list holds
\* exactly the points that template finds in that file.
C19_FaultsAreLocal ==
    pc \in {"pick", "done"} =>
        \A n \in 1..Len(CandidateFiles) : \A i \in 1..Len(templates) :
            LET f == CandidateFiles[n]
                t == templates[i]
                points == findInjectionPoints(t, files[f])
            IN RankedPoints(f, t) =
                  IF Usable(f) /\ ~FindThrows(t, files[f])
                  THEN {points[k].lineIndex : k \in 1..Len(points)}
                  ELSE {}

\* C19 witness: the first candidate file cannot be read or parsed, and on the
\* second the first template throws while a later template still contributes.
C19_Witness ==
    /\ pc = "pick"
    /\ Len(CandidateFiles) = 2
    /\ ~Usable(CandidateFiles[1])
    /\ FindThrows(templates[1], files[CandidateFiles[2]])
    /\ \E i \in 2..Len(templates) : RankedPoints(CandidateFiles[2], templates[i]) # {}

\* ---------------------------------------------------------------------------
\* The apply loop of injectBugs with templates and code generation that can fail
\* ---------------------------------------------------------------------------

\* lines on which the template misbehaves: inject throws on "trap", returns the
\* text unchanged on "same", and yields a tree the generator rejects on "void"
FaultyLines == {"orig", "trap", "same", "void"}

\* template.inject throws
InjectThrows(parsed, point, language) ==
    (IF language = "javascript" THEN parsed[point.lineIndex] ELSE point.line) = "trap"

\* adapter.generateCode throws
GenerateThrows(mutatedParsed) == \E l \in 1..Len(mutatedParsed) : mutatedParsed[l] = "void~"

\* applyInjection without the comparison of the generated text with originalCode
applyInjection_nocompare(c, parsed, language, writeOk) ==
    IF InjectThrows(parsed, c.injectionPoint, language)
    THEN [ok |-> FALSE, parsed |-> parsed, code |-> c.originalCode]
    ELSE LET mutatedParsed == IF language = "javascript" THEN InjectTree(parsed, c.injectionPoint)
                              ELSE InjectLines(parsed, c.injectionPoint)
         IN IF GenerateThrows(mutatedParsed)
            THEN [ok |-> FALSE, parsed |-> mutatedParsed, code |-> c.originalCode]
            ELSE [ok |-> writeOk, parsed |-> mutatedParsed,
                  code |-> IF writeOk THEN generateCode(mutatedParsed) ELSE c.originalCode]

\* applyInjection: ok is FALSE where the function returns null; parsed is the
\* value the candidate's parsed object holds afterwards, code the text written
applyInjection(c, parsed, language, writeOk) ==
    IF InjectThrows(parsed, c.injectionPoint, language)
    THEN [ok |-> FALSE, parsed |-> parsed, code |-> c.originalCode]
    ELSE LET mutatedParsed == IF language = "javascript" THEN InjectTree(parsed, c.injectionPoint)
                              ELSE InjectLines(parsed, c.injectionPoint)
         IN IF GenerateThrows(mutatedParsed)
            THEN [ok |-> FALSE, parsed |-> mutatedParsed, code |-> c.originalCode]
            ELSE LET injectedCode == generateCode(mutatedParsed)
                 IN IF injectedCode = c.originalCode \/ ~writeOk
                    THEN [ok |-> FALSE, parsed |-> mutatedParsed, code |-> c.originalCode]
                    ELSE [ok |-> TRUE, parsed |-> mutatedParsed, code |-> injectedCode]

ApplyInit ==
    /\ files \in [Paths -> [1..NumLines -> FaultyLines] \cup {CleanFile, Missing}]
    /\ files["a"] = CleanFile
    /\ files["p"] = Missing
    /\ files["b"] # Missing
    /\ files["c"] # Missing
    /\ lang \in Languages
    /\ scope \in {"root", "lib", "gone"}
    /\ LibIdle
    /\ ratio \in 1..MaxRatio
    /\ fixedFile = "a"
    /\ templates = Templates
    /\ ranked = <<>>
    /\ selected = <<>>
    /\ pc = "inject"
    /\ mem = NoManifest
    /\ disk = NoManifest
    /\ now = 1
    /\ session = 0
    /\ scanned = 0
    /\ bugs = <<>>
    /\ cur = 0
    /\ parsedObj = NoParsed
    /\ results = <<>>
    /\ lastOp = Op("step", TRUE, 0, 0)
    /\ complete = FALSE
    /\ hist = <<>>
    /\ lastWriter = [f \in Paths |-> 0]

\* the directories of the tree; fs.existsSync(scopeAbs) in injectBugs
ScopeDirs == {"root", "src", "lib"}

ScopeExists(scopeDir) == scopeDir \in ScopeDirs

applyFrame == <<lang, mem, disk, now, session, scanned, bugs, cur, ratio, fixedFile,
                complete, templates, scope, libVars>>

\* injectBugs up to the end of the two selection passes
ApplySelect ==
    /\ pc = "inject"
    /\ ranked' = IF ~ScopeExists(scope) THEN <<>>
                 ELSE selectInjectionPoints(CandidateFiles, fixedFile, DefaultSeverity, templates, lang, files)
    /\ selected' = SelectCandidates(ranked', ratio)
    /\ parsedObj' = files
    /\ pc' = IF selected' = <<>> THEN "done" ELSE "apply"
    /\ lastOp' = Op("select", TRUE, 0, 0)
    /\ UNCHANGED <<files, results, hist, lastWriter>>
    /\ UNCHANGED applyFrame

\* one iteration of the apply loop of injectBugs; the write may fail
ApplyStep ==
    /\ pc = "apply"
    /\ selected # <<>>
    /\ \E writeOk \in BOOLEAN :
          LET c == Head(selected)
              out == applyInjection(c, parsedObj[c.file], lang, writeOk)
          IN /\ parsedObj' = IF lang = "javascript" THEN [parsedObj EXCEPT ![c.file] = out.parsed]
                             ELSE parsedObj
             /\ files' = IF out.ok THEN [files EXCEPT ![c.file] = out.code] ELSE files
             /\ results' = IF out.ok
                           THEN Append(results, [file |-> c.file, line |-> c.injectionPoint.lineIndex,
                                                 originalCode |-> c.originalCode,
                                                 injectedCode |-> out.code])
                           ELSE results
             /\ hist' = IF out.ok
                        THEN Append(hist, [file |-> c.file, before |-> files[c.file], after |-> out.code])
                        ELSE hist
             /\ lastWriter' = IF out.ok THEN [lastWriter EXCEPT ![c.file] = Len(hist) + 1] ELSE lastWriter
             /\ lastOp' = Op("apply", out.ok, 0, 0)
    /\ selected' = Tail(selected)
    /\ pc' = IF Tail(selected) = <<>> THEN "done" ELSE "apply"
    /\ UNCHANGED ranked
    /\ UNCHANGED applyFrame

ApplyNext ==
    \/ ApplySelect
    \/ ApplyStep

ApplySpec == ApplyInit /\ [][ApplyNext]_vars

\* the candidate the apply loop handles next fails for one of the three reasons
NextFails ==
    LET c == Head(selected)
        parsed == parsedObj[c.file]
        mutatedParsed == IF lang = "javascript" THEN InjectTree(parsed, c.injectionPoint)
                         ELSE InjectLines(parsed, c.injectionPoint)
    IN \/ InjectThrows(parsed, c.injectionPoint, lang)
       \/ GenerateThrows(mutatedParsed)
       \/ generateCode(mutatedParsed) = c.originalCode

\* C18: when template.inject throws, code generation throws or the generated
\* text equals originalCode, applyInjection returns null and no file changes;
\* the apply loop drops that candidate, goes on with the remaining selected
\* candidates and returns only the results of the successful ones.
C18_FailedCandidateIsDropped ==
    [][pc = "apply" =>
          /\ selected' = Tail(selected)
          /\ pc' = (IF Tail(selected) = <<>> THEN "done" ELSE "apply")
          /\ NextFails => (files' = files /\ results' = results)
          /\ \A k \in 1..Len(results') :
                 /\ results'[k].injectedCode # results'[k].originalCode
                 /\ k > Len(results) => files'[results'[k].file] = results'[k].injectedCode]_vars

\* C18 witness: of two selected candidates the first was dropped because its
\* template threw, and the second was then applied and is the only result.
C18_Witness ==
    /\ pc = "done"
    /\ ratio = 2
    /\ LET sel == SelectCandidates(ranked, ratio)
       IN /\ Len(sel) = 2
          /\ sel[1].injectionPoint.line = "trap"
          /\ Len(results) = 1
          /\ results[1].file = sel[2].file
          /\ files[sel[1].file] = sel[1].originalCode
          /\ files[sel[2].file] # sel[2].originalCode

\* ---------------------------------------------------------------------------
\* The session commands of the CLI on an absent, corrupt or valid manifest
\* ---------------------------------------------------------------------------

\* .hydra-manifest.json exists and its text is not JSON
CorruptManifest == [NoManifest EXCEPT !.exists = TRUE, !.branch = -1]

\* JSON.parse(raw) in loadManifest throws a SyntaxError
ParseThrows(d) == d.exists /\ d.branch = -1

SessionCommands == {"status", "reveal", "score", "found", "purge"}

\* how a command ended: ok is FALSE when an exception left the handler;
\* arg is 0 for the "No active hydra session" message, 1 for the command's
\* output, 2 for an error message followed by process.exit(1)
Ended(cmd, ok, arg) == Op(cmd, ok, arg, 0)

SessionInit ==
    /\ files \in [FileSet -> {CleanFile, MutatedFile}]
    /\ lang \in Languages
    /\ mem = NoManifest
    /\ \/ disk \in {NoManifest, CorruptManifest}
       \/ \E args \in UNION {[1..n -> RevertArgs] : n \in 0..MaxRevert} :
             disk = BuildManifest(createManifest(NoManifest, 1), args).disk
    /\ now = 1
    /\ pc = "idle"
    /\ session = 1
    /\ scanned = 0
    /\ bugs = <<>>
    /\ cur = 0
    /\ ratio = 0
    /\ fixedFile = Files[1]
    /\ selected = <<>>
    /\ parsedObj = NoParsed
    /\ results = <<>>
    /\ lastOp = Op("step", TRUE, 0, 0)
    /\ complete = TRUE
    /\ hist = <<>>
    /\ lastWriter = [f \in FileSet |-> 0]
    /\ templates = Templates
    /\ ranked = <<>>
    /\ scope = "root"
    /\ LibIdle

sessionFrame == <<lang, mem, pc, session, scanned, bugs, cur, ratio, fixedFile,
                  selected, parsedObj, results, complete, hist, lastWriter,
                  templates, ranked, scope, libVars>>

\* loadManifest and the test of its result in a command that only prints
Loaded(cmd, d) ==
    IF ~d.exists THEN Ended(cmd, TRUE, 0)
    ELSE IF ParseThrows(d) THEN Ended(cmd, FALSE, 1)
    ELSE Ended(cmd, TRUE, 1)

\* status
StatusAction ==
    /\ lastOp' = Loaded("status", disk)
    /\ UNCHANGED <<files, disk, now>>
    /\ UNCHANGED sessionFrame

\* reveal
RevealAction ==
    /\ lastOp' = Loaded("reveal", disk)
    /\ UNCHANGED <<files, disk, now>>
    /\ UNCHANGED sessionFrame

\* score
ScoreAction ==
    /\ lastOp' = Loaded("score", disk)
    /\ UNCHANGED <<files, disk, now>>
    /\ UNCHANGED sessionFrame

\* found <bugId>
FoundAction ==
    /\ now < MaxClock
    /\ now' = now + 1
    /\ \E n \in 1..(Len(disk.injectedBugs) + 1), reviewer \in CliReviewers :
          IF ~disk.exists
          THEN /\ lastOp' = Ended("found", TRUE, 0)
               /\ UNCHANGED disk
          ELSE IF ParseThrows(disk)
          THEN /\ lastOp' = Ended("found", FALSE, 1)
               /\ UNCHANGED disk
          ELSE LET r == markDiscovered(disk, loadManifest(disk), HydraId(n), reviewer, ISO[now + 1])
               IN /\ disk' = IF r.threw THEN disk ELSE saveManifest(r.disk, r.mem)
                  /\ lastOp' = Ended("found", TRUE, IF r.threw THEN 2 ELSE 1)
    /\ UNCHANGED files
    /\ UNCHANGED sessionFrame

\* purge
PurgeAction ==
    /\ IF ~disk.exists
       THEN /\ lastOp' = Ended("purge", TRUE, 0)
            /\ UNCHANGED files
       ELSE IF ParseThrows(disk)
       THEN /\ lastOp' = Ended("purge", FALSE, 1)
            /\ UNCHANGED files
       ELSE IF disk.injectedBugs = <<>>
       THEN /\ lastOp' = Ended("purge", TRUE, 1)
            /\ UNCHANGED files
       ELSE LET r == revertAllInjections(files, loadManifest(disk))
            IN /\ files' = r.fs
               /\ lastOp' = Ended("purge", TRUE, 1)
    /\ UNCHANGED <<disk, now>>
    /\ UNCHANGED sessionFrame

SessionNext ==
    \/ StatusAction
    \/ RevealAction
    \/ ScoreAction
    \/ FoundAction
    \/ PurgeAction

SessionSpec == SessionInit /\ [][SessionNext]_vars

\* C20: status, reveal, score, found and purge treat an absent manifest and a
\* corrupt manifest alike: the command prints that there is no active session
\* and returns, without an exception and without changing any file.
C20_AbsentOrCorruptIsNoSession ==
    [][(~disk.exists \/ ParseThrows(disk)) =>
          /\ lastOp'.op \in SessionCommands
          /\ lastOp'.ok
          /\ lastOp'.arg = 0
          /\ files' = files
          /\ disk' = disk]_vars

\* C21: injectBugs called with a scope directory that does not exist throws to
\* its caller (failures local to one file, template or candidate only shorten
\* the result list).
C21_MissingScopeThrows ==
    (scope = "gone" /\ pc = "done") => ~lastOp.ok

\* ---------------------------------------------------------------------------
\* The language registry: getAdapter and its cache
\* ---------------------------------------------------------------------------

MaxCalls == 3

\* a language without an entry in ADAPTER_LOADERS
Unsupported == "cobol"

registryFrame == <<files, lang, mem, disk, now, pc, session, scanned, bugs, cur, ratio, fixedFile,
                   selected, parsedObj, results, lastOp, complete, hist, lastWriter,
                   templates, ranked, scope, input, output>>

\* a call of getAdapter: where it stands and the adapter object it returned
\* (objects are numbered by the call whose loader built them, 0 is none)
Call(language, at, adapter) == [language |-> language, at |-> at, adapter |-> adapter]

\* getAdapter(language) up to its first await: the cache test, the lookup of
\* the loader and the start of the loader, which lists the template directory
GetAdapter ==
    /\ Len(calls) < MaxCalls
    /\ \E language \in Languages \cup {Unsupported} :
          IF language \in Languages /\ adapterCache[language] # 0
          THEN /\ calls' = Append(calls, Call(language, "returned", adapterCache[language]))
               /\ UNCHANGED loaderRuns
          ELSE IF language \notin Languages
          THEN /\ calls' = Append(calls, Call(language, "threw", 0))
               /\ UNCHANGED loaderRuns
          ELSE /\ calls' = Append(calls, Call(language, "loading", 0))
               /\ loaderRuns' = [loaderRuns EXCEPT ![language] = @ + 1]
    /\ UNCHANGED adapterCache
    /\ UNCHANGED registryFrame

\* await loader() resolves: the new adapter object is stored and returned
LoaderResolves ==
    /\ \E k \in 1..Len(calls) :
          /\ calls[k].at = "loading"
          /\ adapterCache' = [adapterCache EXCEPT ![calls[k].language] = k]
          /\ calls' = [calls EXCEPT ![k] = Call(calls[k].language, "returned", k)]
    /\ UNCHANGED loaderRuns
    /\ UNCHANGED registryFrame

\* await loader() rejects: getAdapter throws and stores nothing
LoaderRejects ==
    /\ \E k \in 1..Len(calls) :
          /\ calls[k].at = "loading"
          /\ calls' = [calls EXCEPT ![k] = Call(calls[k].language, "threw", 0)]
    /\ UNCHANGED <<adapterCache, loaderRuns>>
    /\ UNCHANGED registryFrame

RegistryNext ==
    \/ GetAdapter
    \/ LoaderResolves
    \/ LoaderRejects

RegistrySpec == Init /\ [][RegistryNext]_vars

\* C22: per language the adapter loader is started at most once in a process,
\* all calls for that language, overlapping or not, return the same adapter
\* object, and a cache entry that is set is never replaced.
C22_LoadedOncePerLanguage ==
    /\ [](\A l \in Languages : loaderRuns[l] <= 1)
    /\ [](\A j, k \in 1..Len(calls) :
             (calls[j].language = calls[k].language /\ calls[j].at = "returned" /\ calls[k].at = "returned")
                => calls[j].adapter = calls[k].adapter)
    /\ [][\A l \in Languages : adapterCache[l] # 0 => adapterCache'[l] = adapterCache[l]]_vars

\* ---------------------------------------------------------------------------
\* Library functions studied on their own: the argument is drawn in the
\* initial state and one step applies the function
\* ---------------------------------------------------------------------------

pureFrame == <<files, lang, mem, disk, now, session, scanned, bugs, cur, ratio, fixedFile,
               selected, parsedObj, results, lastOp, complete, hist, lastWriter,
               templates, ranked, scope, adapterCache, calls, loaderRuns>>

\* everything but pc, input and output, as at the start of the process
PureIdle ==
    /\ files = [f \in FileSet |-> CleanFile]
    /\ lang \in Languages
    /\ mem = NoManifest
    /\ disk = NoManifest
    /\ now = 1
    /\ session = 0
    /\ scanned = 0
    /\ bugs = <<>>
    /\ cur = 0
    /\ ratio = 0
    /\ fixedFile = Files[1]
    /\ selected = <<>>
    /\ parsedObj = NoParsed
    /\ results = <<>>
    /\ lastOp = Op("step", TRUE, 0, 0)
    /\ complete = FALSE
    /\ hist = <<>>
    /\ lastWriter = [f \in FileSet |-> 0]
    /\ templates = Templates
    /\ ranked = <<>>
    /\ scope = "root"
    /\ adapterCache = [l \in Languages |-> 0]
    /\ calls = <<>>
    /\ loaderRuns = [l \in Languages |-> 0]

\* ---------------------------------------------------------------------------
\* parse and generate of the adapters, on texts as sequences of characters
\* ---------------------------------------------------------------------------

MaxText == 4

NL == "nl"

\* an identifier character, the statement terminator and the newline
Chars == {"a", ";", NL}

Texts == UNION {[1..n -> Chars] : n \in 0..MaxText}

\* String.prototype.split("\n")
RECURSIVE SplitLines(_)
SplitLines(s) ==
    IF \A i \in 1..Len(s) : s[i] # NL THEN <<s>>
    ELSE LET i == CHOOSE j \in 1..Len(s) : s[j] = NL /\ \A h \in 1..(j - 1) : s[h] # NL
         IN <<SubSeq(s, 1, i - 1)>> \o SplitLines(SubSeq(s, i + 1, Len(s)))

\* Array.prototype.join("\n")
RECURSIVE JoinLines(_)
JoinLines(lines) ==
    IF lines = <<>> THEN <<>>
    ELSE IF Len(lines) = 1 THEN lines[1]
    ELSE lines[1] \o <<NL>> \o JoinLines(Tail(lines))

parseLines(source) == SplitLines(source)

generateFromLines(parsed) == JoinLines(parsed)

\* the tokens of a JavaScript text: the lengths of its identifiers, 0 for ";"
RECURSIVE Tokens(_, _)
Tokens(s, run) ==
    IF s = <<>> THEN (IF run > 0 THEN <<run>> ELSE <<>>)
    ELSE IF Head(s) = "a" THEN Tokens(Tail(s), run + 1)
    ELSE (IF run > 0 THEN <<run>> ELSE <<>>)
         \o (IF Head(s) = ";" THEN <<0>> ELSE <<>>)
         \o Tokens(Tail(s), 0)

\* the statements of the program: an identifier takes the ";" that follows it,
\* or ends by automatic semicolon insertion; a lone ";" is an empty statement
RECURSIVE Statements(_)
Statements(toks) ==
    IF toks = <<>> THEN <<>>
    ELSE IF Head(toks) > 0 /\ Len(toks) > 1 /\ toks[2] = 0
         THEN <<Head(toks)>> \o Statements(Tail(Tail(toks)))
    ELSE <<Head(toks)>> \o Statements(Tail(toks))

\* parse(source, PARSE_OPTIONS): the tree keeps the statements, not the layout
parseJavaScript(source) == Statements(Tokens(source, 0))

\* the text the generator prints for one statement
PrintStatement(n) == [i \in 1..(n + 1) |-> IF i <= n THEN "a" ELSE ";"]

\* generate(ast).code: one statement per line, each ended by ";"
generateJavaScript(ast) == JoinLines([k \in 1..Len(ast) |-> PrintStatement(ast[k])])

\* adapter.generateCode(adapter.parseFile(s, f), s)
RoundTrip(adapter, s) ==
    IF adapter = "javascript" THEN generateJavaScript(parseJavaScript(s))
    ELSE generateFromLines(parseLines(s))

RoundTripInit ==
    /\ PureIdle
    /\ pc = "parse"
    /\ input \in [adapter : Languages, s : Texts]
    /\ output = <<>>

ParseAndGenerate ==
    /\ pc = "parse"
    /\ output' = RoundTrip(input.adapter, input.s)
    /\ pc' = "generated"
    /\ UNCHANGED input
    /\ UNCHANGED pureFrame

RoundTripNext ==
    \/ ParseAndGenerate

RoundTripSpec == RoundTripInit /\ [][RoundTripNext]_vars

\* C23: for every adapter and every well-formed source s, generating code from
\* the unmutated result of parsing s gives back s exactly.
C23_RoundTrip ==
    pc = "generated" => output = input.s

\* C24: an infest run with --dry-run changes nothing: it starts no session
\* branch, writes no source file, creates or writes no manifest and makes no
\* commit or push, whatever the scan returns.
C24_DryRunChangesNothing ==
    [][lastOp'.op = "dryRun" =>
          /\ files' = files
          /\ disk' = disk
          /\ mem' = mem
          /\ session' = session
          /\ complete' = complete
          /\ hist' = hist
          /\ pc' = "idle"]_vars

\* C24 witness: a dry run whose scan found bugs, made while source files carry
\* injected bugs and a manifest exists
C24_Witness ==
    /\ lastOp.op = "dryRun"
    /\ lastOp.arg > 0
    /\ disk.exists
    /\ \E f \in FileSet : \E l \in 1..NumLines : IsMutated(files[f][l])

\* ---------------------------------------------------------------------------
\* The three scores and the composite score of a candidate
\* ---------------------------------------------------------------------------

Categories == {"react", "async", "logic", "null-safety", "error-handling", "concurrency",
               "resource", "indentation", "correctness", "security", "database", "event-loop"}

\* a category CATEGORY_SEVERITY and the switch do not know
UnknownCategory == "typo"

Severities == 1..5

External(name) == [spec |-> name, tail |-> name, external |-> TRUE]

\* the import specifiers a file may hold
ImportPool == {External("lodash"), External("express"), External("axios"), External("chalk"),
               External("react"), [spec |-> "./a", tail |-> "a", external |-> FALSE]}

ScoreInit ==
    /\ PureIdle
    /\ pc = "score"
    /\ input \in [candidateFile : Paths \ {"a"}, candidateImports : SUBSET ImportPool,
                   category : Categories \cup {UnknownCategory}, hit : BOOLEAN,
                   language : {lang}, severity : Severities]
    /\ output = <<>>

\* the scoring of one candidate in selectInjectionPoints; the fixed file is a
\* and imports every package of the pool
ScoreCandidate ==
    /\ pc = "score"
    /\ LET relScore == relatednessScore(input.candidateFile, "a", input.candidateImports, ImportPool)
           catScore == categoryFit(input.category, input.hit, input.language)
           sevScore == severityMatchScore([category |-> input.category], input.severity)
       IN output' = [rel |-> relScore, cat |-> catScore, sev |-> sevScore,
                     score |-> relScore * 40 + catScore * 35 + sevScore * 25]
    /\ pc' = "scored"
    /\ UNCHANGED input
    /\ UNCHANGED pureFrame

ScoreNext ==
    \/ ScoreCandidate

ScoreSpec == ScoreInit /\ [][ScoreNext]_vars

\* C25: for every fix context, template category (known or not) and requested
\* severity 1..5 each of relatedness, category fit and severity fit lies in
\* [0,1] and the composite 0.40, 0.35, 0.25 weighting of them lies in [0,1]
\* (scores in hundredths, the composite in ten-thousandths).
C25_ScoresInUnitInterval ==
    pc = "scored" =>
        /\ output.rel \in 0..100
        /\ output.cat \in 0..100
        /\ output.sev \in 0..100
        /\ output.score = 40 * output.rel + 35 * output.cat + 25 * output.sev
        /\ output.score \in 0..10000

\* C25 witness: a candidate in the directory of the fixed file that imports it
\* and shares five packages with it, so that the relatedness is cut at 1, and
\* a category the tables do not know
C25_Witness ==
    /\ pc = "scored"
    /\ output.rel = 100
    /\ Cardinality({i \in input.candidateImports : i.external}) = 5
    /\ input.category = UnknownCategory
    /\ output.cat = 30

\* ---------------------------------------------------------------------------
\* generateDiff: the edit script and the hunks (indices from 0, as in the code)
\* ---------------------------------------------------------------------------

MaxDiffLines == 7

WINDOW == 8

contextLines == 3

\* the texts after split: at least one line each
DiffTexts == UNION {[1..n -> {"x", "y"}] : n \in 1..MaxDiffLines}

Change(type, origIdx, modIdx, text) == [type |-> type, origIdx |-> origIdx, modIdx |-> modIdx, text |-> text]

\* origLines[oi + d] === modLines[mi], with oi + d inside origLines
DeletionAt(o, m, oi, mi, d) == oi + d < Len(o) /\ mi < Len(m) /\ o[oi + d + 1] = m[mi + 1]

\* origLines[oi] === modLines[mi + d], with mi + d inside modLines
InsertionAt(o, m, oi, mi, d) == mi + d < Len(m) /\ oi < Len(o) /\ o[oi + 1] = m[mi + d + 1]

\* the unmatched case with the added line left out
Substitution_delonly(o, m, oi, mi) ==
    IF oi < Len(o) THEN <<Change("del", oi, -1, o[oi + 1])>> ELSE <<>>

\* no match in the window: delete the old line and add the new one
Substitution(o, m, oi, mi) ==
    (IF oi < Len(o) THEN <<Change("del", oi, -1, o[oi + 1])>> ELSE <<>>)
    \o (IF mi < Len(m) THEN <<Change("add", -1, mi, m[mi + 1])>> ELSE <<>>)

\* the walk over both texts from the cursors oi and mi
RECURSIVE EditScript(_, _, _, _)
EditScript(o, m, oi, mi) ==
    IF ~(oi < Len(o) \/ mi < Len(m)) THEN <<>>
    ELSE IF oi < Len(o) /\ mi < Len(m) /\ o[oi + 1] = m[mi + 1]
    THEN <<Change("eq", oi, mi, o[oi + 1])>> \o EditScript(o, m, oi + 1, mi + 1)
    ELSE LET hits == {d \in 1..WINDOW : DeletionAt(o, m, oi, mi, d) \/ InsertionAt(o, m, oi, mi, d)}
         IN IF hits = {}
            THEN Substitution(o, m, oi, mi) \o EditScript(o, m, oi + 1, mi + 1)
            ELSE LET d == CHOOSE x \in hits : \A y \in hits : x <= y
                 IN IF DeletionAt(o, m, oi, mi, d)
                    THEN [k \in 1..d |-> Change("del", oi + k - 1, -1, o[oi + k])]
                         \o EditScript(o, m, oi + d, mi)
                    ELSE [k \in 1..d |-> Change("add", -1, mi + k - 1, m[mi + k])]
                         \o EditScript(o, m, oi, mi + d)

Changed(changes, i) == changes[i + 1].type # "eq"

\* the end of the changed run that starts at i, before the trailing context
RECURSIVE RunEnd(_, _, _)
RunEnd(changes, i, end) ==
    IF end < Len(changes) /\ (Changed(changes, end) \/ end < i + contextLines)
    THEN RunEnd(changes, i, end + 1)
    ELSE end

\* the hunks from index i on: each is the slice [start, end) of the changes
RECURSIVE Hunks(_, _)
Hunks(changes, i) ==
    IF i >= Len(changes) THEN <<>>
    ELSE IF ~Changed(changes, i) THEN Hunks(changes, i + 1)
    ELSE LET start == IF i - contextLines < 0 THEN 0 ELSE i - contextLines
             end == Min(Len(changes), RunEnd(changes, i, i) + contextLines)
         IN <<[start |-> start, end |-> end]>> \o Hunks(changes, end)

\* generateDiff: empty says that the function returned the empty string
generateDiff(original, modified) ==
    LET changes == EditScript(original, modified, 0, 0)
        none == \A i \in 0..(Len(changes) - 1) : ~Changed(changes, i)
    IN [changes |-> changes,
        hunks |-> IF none THEN <<>> ELSE Hunks(changes, 0),
        empty |-> none]

DiffInit ==
    /\ PureIdle
    /\ lang = "javascript"
    /\ pc = "diff"
    /\ input \in [original : DiffTexts, modified : DiffTexts]
    /\ output = <<>>

GenerateDiff ==
    /\ pc = "diff"
    /\ output' = generateDiff(input.original, input.modified)
    /\ pc' = "diffed"
    /\ UNCHANGED input
    /\ UNCHANGED pureFrame

DiffNext ==
    \/ GenerateDiff

DiffSpec == DiffInit /\ [][DiffNext]_vars

\* the texts of the entries of the given types, in order
RECURSIVE Project(_, _)
Project(changes, types) ==
    IF changes = <<>> THEN <<>>
    ELSE (IF Head(changes).type \in types THEN <<Head(changes).text>> ELSE <<>>)
         \o Project(Tail(changes), types)

\* C26: the edit script of generateDiff is valid for any two texts: its eq and
\* del entries in order are the lines of the original, its eq and add entries
\* in order are the lines of the modified text, and the diff is the empty
\* string exactly when the two texts are equal.
C26_EditScriptValid ==
    pc = "diffed" =>
        /\ Project(output.changes, {"eq", "del"}) = input.original
        /\ Project(output.changes, {"eq", "add"}) = input.modified
        /\ output.empty <=> (input.original = input.modified)

\* C26 witness: a script that keeps, deletes and adds lines, for texts of
\* different lengths
C26_Witness ==
    /\ pc = "diffed"
    /\ Len(input.original) # Len(input.modified)
    /\ \A t \in {"eq", "del", "add"} :
          \E k \in 1..Len(output.changes) : output.changes[k].type = t
    /\ \E k \in 1..(Len(output.changes) - 1) :
          output.changes[k].type = "del" /\ output.changes[k + 1].type = "add"

\* the changed indices of a hunk
ChangedIn(h) == {i \in h.start..(h.end - 1) : Changed(output.changes, i)}

\* C27: the hunks of a diff are disjoint and in increasing order, every changed
\* line is in exactly one hunk, and a hunk has at most 3 context lines before
\* its first and after its last changed line.
C27_HunksDisjoint ==
    pc = "diffed" =>
        /\ \A j, k \in 1..Len(output.hunks) : j < k => output.hunks[j].end <= output.hunks[k].start
        /\ \A i \in 0..(Len(output.changes) - 1) :
              Changed(output.changes, i) =>
                 Cardinality({k \in 1..Len(output.hunks) :
                                 output.hunks[k].start <= i /\ i < output.hunks[k].end}) = 1
        /\ \A k \in 1..Len(output.hunks) :
              LET h == output.hunks[k]
                  first == CHOOSE i \in ChangedIn(h) : \A j \in ChangedIn(h) : i <= j
                  last == CHOOSE i \in ChangedIn(h) : \A j \in ChangedIn(h) : i >= j
              IN first - h.start <= contextLines /\ (h.end - 1) - last <= contextLines

\* C28: when injectBugs returns, every mutation it reports is present in its
\* target file on disk: a later candidate of the batch on the same file does
\* not erase the change of an earlier one.
C28_ReportedMutationsOnDisk ==
    pc = "done" =>
        \A k \in 1..Len(results) :
            files[results[k].file][results[k].line] # results[k].originalCode[results[k].line]

\* the ids of the real fixes of a manifest
FixIds(m) == {m.realFixes[j].id : j \in 1..Len(m.realFixes)}

\* C29: in every manifest of an infest run each InjectedBug's parentFix is the
\* id of a RealFix of that manifest, recorded before it, namely the fix that
\* triggered the batch (the last one appended, in the fixed file of the
\* batch); a bug whose fix failed has no RealFix and gets no InjectedBug.
C29_ParentFixExists ==
    /\ [](\A k \in 1..Len(mem.injectedBugs) : mem.injectedBugs[k].parentFix \in FixIds(mem))
    /\ [](disk.exists =>
             \A k \in 1..Len(disk.injectedBugs) :
                 loadManifest(disk).injectedBugs[k].parentFix \in FixIds(loadManifest(disk)))
    /\ [][Len(mem'.injectedBugs) = Len(mem.injectedBugs) + 1 =>
             /\ mem.realFixes # <<>>
             /\ mem'.realFixes = mem.realFixes
             /\ mem'.injectedBugs[Len(mem'.injectedBugs)].parentFix = mem.realFixes[Len(mem.realFixes)].id
             /\ mem.realFixes[Len(mem.realFixes)].file = fixedFile]_vars

\* C29 witness: the first fix of the run failed and the batch of the second
\* bug's fix, the only RealFix, was recorded
C29_Witness ==
    /\ cur = 2
    /\ Len(mem.realFixes) = 1
    /\ Len(mem.injectedBugs) > 0
    /\ mem.injectedBugs[Len(mem.injectedBugs)].parentFix = FixId(1)

\* C30: revertAllInjections and revertSingleInjection write source files only:
\* the manifest in memory and on disk is what it was, with every InjectedBug,
\* its discovery state and the stats, and a second purge writes the same
\* snapshots again and so leaves the files as the first left them.
C30_RevertKeepsManifest ==
    [][lastOp'.op \in {"purge", "revertSingle"} =>
          /\ disk' = disk
          /\ mem' = mem
          /\ lastOp'.op = "purge" =>
                LET again == revertAllInjections(files', loadManifest(disk'))
                IN /\ again.fs = files'
                   /\ again.reverted = lastOp'.arg
                   /\ again.errors = lastOp'.errs]_vars

\* C30 witness: a purge that reverted a bug while the manifest lists a
\* discovered bug
C30_Witness ==
    /\ lastOp.op = "purge"
    /\ lastOp.arg > 0
    /\ disk.exists
    /\ disk.stats.discovered > 0
    /\ \E k \in 1..Len(disk.injectedBugs) : loadManifest(disk).injectedBugs[k].discoveredBy # Null
====
